---- MODULE Spec2Model ----
(***************************************************************************)
(* lsl-view: the streaming pipeline of the viewer.                         *)
(*                                                                         *)
(*   useWebSocket   (src/src/hooks/useLslStreams.ts 62-164)                *)
(*   useStreamData  (src/src/hooks/useLslStreams.ts 202-339)               *)
(*   App            (src/src/components/RecordingControls.tsx 100-242)     *)
(*   TimeSeriesChart (src/src/components/TimeSeriesChart.tsx 39-379)       *)
(*                                                                         *)
(* Scheduling model.  Everything runs on one thread; each action below is  *)
(* one browser task.  A React state update made outside a click handler    *)
(* (socket events, the animation-frame callback) only requests a render:   *)
(* renderPending, carried out later by Render, and the passive effect of   *)
(* that render (the chart's redraw effect) runs in a still later task:     *)
(* drawPending, carried out by DrawEffect.  A click handler is rendered    *)
(* and its effects are flushed before the task ends, so the click actions  *)
(* contain the handler, the render and the effects; pending passive        *)
(* effects are flushed before a render, and a click that renders App is    *)
(* taken when no render of App is pending.  A render reads the latest      *)
(* value given to each React state.                                        *)
(***************************************************************************)
EXTENDS Integers, Sequences, FiniteSets, Bags, TLC

\* ------------------------------------------------------------------ bounds

\* bufferSize of useStreamData (2048 in the program), scaled down.
BufferSize == 2
\* accepted numeric writes in one behaviour (statsRef.totalSamples is unbounded).
MaxWrites == 4
\* the cap of the marker log (500 in the program), scaled down.
MarkerCap == 2
\* sockets closed by the hook whose error event is still to come.
MaxOrphans == 1
\* the largest value the downsample slider is moved to (20 in the program).
MaxDownsample == 1
\* animation-frame handles the browser can have outstanding.
MaxFrames == 2
\* the last reading of the clock (performance.now() / 1000) in one behaviour.
MaxClock == 3
\* marker events appended in one behaviour (the appends are unbounded).
MaxMarkers == 3
\* malformed events delivered in one behaviour.
MaxMalformed == 1
\* channels of the widest stream a chart is drawn for
MaxChannels == 11
\* characters of the longest channel label, and the widest label budget (in
\* units of the width of a narrow character)
MaxLabel == 4
MaxBudget == 8
\* rows of the marker timeline (100 in the program), scaled down, and entries
\* of the longest marker log it is rendered with
TimelineCap == 2
MaxLog == 4
\* lanes of the tallest stacked chart (visible channels of one stream)
MaxLanes == 64

\* the requests of useRecording in flight at one time
MaxRequests == 3

\* ------------------------------------------------------------------ values

Min(a, b) == IF a < b THEN a ELSE b

\* selectedStream = null
NoStream == 0

\* The streams the discovery returned (LslStream: channelCount, channelFormat,
\* nominalSrate); a stream's uid is its position in the list.
Streams ==
  << [channelCount |-> 2, channelFormat |-> "float32", nominalSrate |-> 250],
     [channelCount |-> 1, channelFormat |-> "float32", nominalSrate |-> 1200],
     [channelCount |-> 1, channelFormat |-> "float32", nominalSrate |-> 100],
     [channelCount |-> 2, channelFormat |-> "string", nominalSrate |-> 0],
     [channelCount |-> 1, channelFormat |-> "string", nominalSrate |-> 0] >>

StreamUids == 1..Len(Streams)

\* const channelCount = stream?.channelCount ?? 0
channelCount(stream) ==
  IF stream = NoStream THEN 0 ELSE Streams[stream].channelCount

\* const isStringStream = stream?.channelFormat === "string"
isStringStream(stream) ==
  stream # NoStream /\ Streams[stream].channelFormat = "string"

\* wsUrl = null without a stream; the stream's uid, and for a numeric stream
\* the downsample query when downsample > 1.
NoUrl == <<>>
wsUrl(stream, ds) ==
  IF stream = NoStream THEN NoUrl
  ELSE IF ~isStringStream(stream) /\ ds > 1 THEN <<stream, ds>>
  ELSE <<stream>>

\* handleSelectStream: Math.ceil(nominalSrate / 500) above 1000 Hz, else 1
autoDownsample(stream) ==
  IF Streams[stream].nominalSrate > 1000
  THEN (Streams[stream].nominalSrate + 499) \div 500
  ELSE 1

\* LSL timestamps of the sample events (a second and more than a second
\* apart, so that a window of 1 s leaves a sample out), and their payloads.
TStamps == {1, 3}
NumPayloads == { <<>>, <<1>>, <<1, 2>>, <<2, 1, 1>> }
StrPayloads == { <<"a">>, <<"a", "b">> }

\* One well-formed sample event of each format and the malformed ones: the
\* events of the specification that explores the scheduling.
OneNumSample == { [kind |-> "sample", t |-> 1, d |-> <<1, 2>>] }
OneStrSample == { [kind |-> "sample", t |-> 1, d |-> <<"a">>] }
BadMessages ==
  { [kind |-> k, t |-> 0, d |-> <<>>] : k \in {"null", "no_t", "no_d"} }

\* What a socket delivers to onMessage: a sample {t, d}, or something the
\* guard of onMessage rejects (null, no t, no d).
Messages(payloads) == [kind : {"sample"}, t : TStamps, d : payloads]

\* a mutant of Malformed: only a null event is rejected
MalformedNullOnly(m) == m.kind = "null"

\* if (!sample || sample.t === undefined || !sample.d) return
Malformed(m) == m.kind # "sample"

\* values.join(", ")
RECURSIVE Join(_)
Join(values) ==
  IF Len(values) = 0 THEN <<>>
  ELSE IF Len(values) = 1 THEN <<values[1]>>
  ELSE <<values[1], ", ">> \o Join(Tail(values))

\* statsRef's initial value
ZeroStats ==
  [actualSampleRate |-> 0, totalSamples |-> 0, latestTimestamp |-> 0,
   connectionUptime |-> 0]

\* one second of performance.now() / 1000, in clock units
OneSecond == 1

\* a mutant of NewBuffers: one sequence, whatever the channel count
NewBuffersOne(cc) == [ch \in 0..0 |-> [i \in 0..(BufferSize - 1) |-> 0]]

\* Array.from({length: channelCount}, () => new Float64Array(bufferSize))
NewBuffers(cc) == [ch \in 0..(cc - 1) |-> [i \in 0..(BufferSize - 1) |-> 0]]
\* new Float64Array(bufferSize)
NewTs == [i \in 0..(BufferSize - 1) |-> 0]

FrameIds == 1..MaxFrames

\* ---------------------------------------------------------------- variables

VARIABLES
  \* App
  selectedStream, downsample,
  \* useWebSocket
  wsState, wsRef, reconnectTimer, onMessageRef, urlRef,
  \* useStreamData
  buffersRef, tsRef, writeHeadRef, sampleCountRef,
  rafRef, dirtyRef, statsRef, connectTimeRef, rateWindowRef, markers,
  \* what the last render of useStreamData returned
  snap,
  \* TimeSeriesChart
  paused, windowSeconds,
  \* React: a requested render, a passive redraw effect not yet run
  renderPending, drawPending,
  \* the browser: outstanding animation frames, closed sockets that still
  \* fire an error event, the clock
  frames, orphans, now,
  \* observers: the canvas after the last draw; the writes since the buffers
  \* were allocated and the most recent of them
  screen, writes, hist,
  \* observers: the clock readings of the accepted writes; the clock reading
  \* of the first accepted write of the open socket (0: none yet, or no open
  \* socket); the
  \* marker events appended, each with the stream selected when it arrived;
  \* the malformed events delivered
  writeTimes, firstSample, appended, malformed,
  \* the reconnectDelay option the hook was called with (it does not change)
  reconnectDelay,
  \* the last application of a pure function of the display: its name, its
  \* arguments and what it returned
  call,
  \* useRecording: its three states, and the requests sent to the server
  \* that have not completed
  recording, busy, error, requests

appVars == <<selectedStream, downsample>>
wsVars == <<wsState, wsRef, reconnectTimer, onMessageRef, urlRef, orphans>>
bufVars == <<buffersRef, tsRef, writeHeadRef, sampleCountRef>>
statVars == <<statsRef, connectTimeRef, rateWindowRef>>
rafVars == <<rafRef, dirtyRef, frames>>
chartVars == <<paused, windowSeconds>>
obsVars == <<writes, hist, writeTimes, firstSample, appended>>
recVars == <<recording, busy, error, requests>>

vars ==
  <<selectedStream, downsample, wsState, wsRef, reconnectTimer, onMessageRef,
    urlRef, buffersRef, tsRef, writeHeadRef, sampleCountRef, rafRef, dirtyRef,
    statsRef, connectTimeRef, rateWindowRef, markers, snap, paused,
    windowSeconds, renderPending, drawPending, frames, orphans, now, screen,
    writes, hist, writeTimes, firstSample, appended, malformed,
    reconnectDelay, call, recording, busy, error, requests>>

\* rafRef.current = null
NoFrame == 0

\* the chart's initial state: useState(false), useState(initialWindow = 5)
InitialWindow == 5
WindowChoices == {1, 5}

\* useStreamData calls useWebSocket with reconnectDelay: 3000 (310)
ReconnectDelay == 3000

\* no pure function applied yet
NoCall == [fn |-> "none", args |-> <<>>, done |-> FALSE, result |-> <<>>]

\* useState<RecordingSession | null>(null), useState<string | null>(null)
\* (91, 93)
NoRecording == <<>>
NoError == "null"

\* nothing painted (no canvas)
NoScreen == [kind |-> "none", total |-> 0, torn |-> FALSE]

\* the state of the stream pipeline after the first render
InitStream ==
  /\ selectedStream = NoStream
  /\ downsample = 1
  /\ wsState = "closed"
  /\ wsRef = "null"
  /\ reconnectTimer = 0
  /\ onMessageRef = FALSE
  /\ urlRef = NoUrl
  /\ buffersRef = NewBuffers(0)
  /\ tsRef = [i \in {} |-> 0]
  /\ writeHeadRef = 0
  /\ sampleCountRef = 0
  /\ rafRef = NoFrame
  /\ dirtyRef = FALSE
  /\ statsRef = ZeroStats
  /\ connectTimeRef = 0
  /\ rateWindowRef = <<>>
  /\ markers = <<>>
  /\ snap = [sampleCount |-> 0, writeHead |-> 0, stats |-> ZeroStats]
  /\ paused = FALSE
  /\ windowSeconds = InitialWindow
  /\ renderPending = FALSE
  /\ drawPending = FALSE
  /\ frames = {}
  /\ orphans = 0
  /\ now = 1
  /\ screen = NoScreen
  /\ writes = 0
  /\ hist = <<>>
  /\ writeTimes = <<>>
  /\ firstSample = 0
  /\ appended = <<>>
  /\ malformed = 0
  /\ recording = NoRecording
  /\ busy = FALSE
  /\ error = NoError
  /\ requests = EmptyBag

Init == InitStream /\ reconnectDelay = ReconnectDelay /\ call = NoCall


\* ------------------------------------------------------------- useWebSocket

\* The hook's socket state as one value, for the helpers below.
\* ref is the readyState of the socket wsRef.current refers to ("null" for
\* none; "failed" for a socket whose error event was delivered and whose
\* close event is still to come); timer counts the pending reconnect timeouts.
WsRec ==
  [state |-> wsState, ref |-> wsRef, timer |-> reconnectTimer, orph |-> orphans]

SetWs(w) ==
  /\ wsState' = w.state
  /\ wsRef' = w.ref
  /\ reconnectTimer' = w.timer
  /\ orphans' = w.orph

\* wsRef.current.onclose = null; wsRef.current.close()
\* The socket's onerror stays attached: closing a socket that is still
\* connecting fails the connection and the browser fires its error event.
Abandon(w) ==
  IF w.ref = "connecting" THEN Min(w.orph + 1, MaxOrphans) ELSE w.orph

\* a mutant of clearTimeout: the pending timeout is left to fire
clearTimeoutLeft(n) == n

\* clearTimeout(reconnectTimer.current)
clearTimeout(n) == IF n > 0 THEN n - 1 ELSE 0

\* connect (82-122), called with urlRef.current = url
connect(w, url) ==
  IF url = NoUrl THEN w
  ELSE [state |-> "connecting", ref |-> "connecting", timer |-> w.timer,
        orph |-> Abandon(w)]

\* close (153-161)
close(w) ==
  [state |-> "closed", ref |-> "null", timer |-> clearTimeout(w.timer),
   orph |-> Abandon(w)]

\* the cleanup of the url effect (137-144)
cleanup(w) ==
  [state |-> w.state, ref |-> "null", timer |-> clearTimeout(w.timer),
   orph |-> Abandon(w)]

\* the url effect after a change of url (125-145): the previous run's cleanup,
\* then connect() or, for a null url, close the socket and report closed
urlEffect(w, url) ==
  IF url # NoUrl THEN connect(cleanup(w), url)
  ELSE [cleanup(w) EXCEPT !.state = "closed"]

\* ------------------------------------------------------------ useStreamData

\* The body of useStreamData run by a render for `stream` with the connection
\* state `st`: buffer allocation (234-240), connect-time tracking (313-319)
\* and the returned snapshot (329-338).
useStreamData(stream, st) ==
  LET cc == channelCount(stream)
      re == cc > 0 /\ Cardinality(DOMAIN buffersRef) # cc
      ct == IF st = "open" /\ connectTimeRef = 0 THEN now ELSE connectTimeRef
      sc == IF re THEN 0 ELSE sampleCountRef
      wh == IF re THEN 0 ELSE writeHeadRef
  IN [realloc |-> re,
      buffers |-> IF re THEN NewBuffers(cc) ELSE buffersRef,
      ts |-> IF re THEN NewTs ELSE tsRef,
      writeHead |-> wh,
      sampleCount |-> sc,
      connectTime |-> IF st = "closed" THEN 0 ELSE ct,
      snap |-> [sampleCount |-> sc, writeHead |-> wh, stats |-> statsRef]]

\* the refs and the snapshot after that render
SetRendered(r) ==
  /\ buffersRef' = r.buffers
  /\ tsRef' = r.ts
  /\ writeHeadRef' = r.writeHead
  /\ sampleCountRef' = r.sampleCount
  /\ connectTimeRef' = r.connectTime
  /\ snap' = r.snap
  /\ writes' = IF r.realloc THEN 0 ELSE writes
  /\ hist' = IF r.realloc THEN <<>> ELSE hist
  /\ UNCHANGED <<writeTimes, appended>>

\* a mutant of Evict: nothing is evicted
EvictNone(w, cutoff) == w

\* while (rateWindow.length > 0 && rateWindow[0] < cutoff) rateWindow.shift()
RECURSIVE Evict(_, _)
Evict(w, cutoff) ==
  IF Len(w) > 0 /\ w[1] < cutoff THEN Evict(Tail(w), cutoff) ELSE w

\* a mutant of CapMarkers: the oldest entries are kept
CapMarkersOldest(next) ==
  IF Len(next) > MarkerCap THEN SubSeq(next, 1, MarkerCap) ELSE next

\* next.length > 500 ? next.slice(-500) : next
CapMarkers(next) ==
  IF Len(next) > MarkerCap
  THEN SubSeq(next, Len(next) - MarkerCap + 1, Len(next))
  ELSE next

\* requestAnimationFrame: a handle the browser has not outstanding
NewFrame == CHOOSE f \in FrameIds : f \notin frames

\* a mutant of scheduleRender: a frame is requested while one is pending
scheduleRenderAlways(d) ==
  IF d
  THEN /\ FrameIds \ frames # {}
       /\ rafRef' = NewFrame
       /\ frames' = frames \cup {NewFrame}
  ELSE UNCHANGED <<rafRef, frames>>

\* scheduleRender (243-251), with dirtyRef.current = d
scheduleRender(d) ==
  IF d /\ rafRef = NoFrame
  THEN /\ FrameIds \ frames # {}
       /\ rafRef' = NewFrame
       /\ frames' = frames \cup {NewFrame}
  ELSE UNCHANGED <<rafRef, frames>>

\* tsRef.current[head] = sample.t (271); a typed array ignores a store
\* outside its length
writeTs(ts, head, t) ==
  IF head \in DOMAIN ts THEN [ts EXCEPT ![head] = t] ELSE ts

\* Mutants of writeChannels: the values go to the slot after head as well;
\* a channel the sample has no value for is zeroed.
writeChannelsSpill(bufs, head, d) ==
  [ch \in DOMAIN bufs |->
     IF ch < Len(d)
     THEN [i \in DOMAIN bufs[ch] |->
             IF i = head \/ i = (head + 1) % BufferSize
             THEN d[ch + 1] ELSE bufs[ch][i]]
     ELSE bufs[ch]]
writeChannelsZeroFill(bufs, head, d) ==
  [ch \in DOMAIN bufs |->
     IF head \in DOMAIN bufs[ch]
     THEN [bufs[ch] EXCEPT ![head] = IF ch < Len(d) THEN d[ch + 1] ELSE 0]
     ELSE bufs[ch]]
\* a mutant: every channel takes the sample's first value
writeChannelsFirst(bufs, head, d) ==
  [ch \in DOMAIN bufs |->
     IF ch < Len(d) /\ head \in DOMAIN bufs[ch]
     THEN [bufs[ch] EXCEPT ![head] = d[1]]
     ELSE bufs[ch]]

\* for (ch = 0; ch < channels.length && ch < buffers.length; ch++)
\*   buffers[ch][head] = channels[ch]                          (272-274)
writeChannels(bufs, head, d) ==
  [ch \in DOMAIN bufs |->
     IF ch < Len(d) /\ head \in DOMAIN bufs[ch]
     THEN [bufs[ch] EXCEPT ![head] = d[ch + 1]]
     ELSE bufs[ch]]

\* a mutant of nextHead: the head is not wrapped
nextHeadNoWrap(head) == head + 1

\* writeHeadRef.current = (head + 1) % bufferSize (275)
nextHead(head) == (head + 1) % BufferSize

\* sampleCountRef.current = Math.min(sampleCountRef.current + 1, bufferSize)
nextCount(count) == Min(count + 1, BufferSize)

\* the numeric branch of onMessage (268-295)
WriteSample(m) ==
  LET head == writeHeadRef
      rw == Evict(Append(rateWindowRef, now), now - OneSecond)
  IN /\ statsRef.totalSamples < MaxWrites
     /\ tsRef' = writeTs(tsRef, head, m.t)
     /\ buffersRef' = writeChannels(buffersRef, head, m.d)
     /\ writeHeadRef' = nextHead(head)
     /\ sampleCountRef' = nextCount(sampleCountRef)
     /\ statsRef' =
          [actualSampleRate |-> Len(rw),
           totalSamples |-> statsRef.totalSamples + 1,
           latestTimestamp |-> m.t,
           connectionUptime |->
             IF connectTimeRef > 0 THEN now - connectTimeRef
             ELSE statsRef.connectionUptime]
     /\ rateWindowRef' = rw
     /\ dirtyRef' = TRUE
     /\ scheduleRender(TRUE)
     /\ writes' = writes + 1
     /\ hist' = LET h == Append(hist, [t |-> m.t, d |-> m.d])
                IN IF Len(h) > BufferSize THEN Tail(h) ELSE h
     /\ writeTimes' = Append(writeTimes, now)
     /\ firstSample' = IF firstSample = 0 THEN now ELSE firstSample
     /\ UNCHANGED <<markers, renderPending, connectTimeRef, appended>>

\* a mutant of AppendMarker: a marker counts as a sample
AppendMarkerCounted(m) ==
  /\ Len(appended) < MaxMarkers
  /\ markers' = CapMarkers(Append(markers, [timestamp |-> m.t, value |-> Join(m.d)]))
  /\ renderPending' = TRUE
  /\ appended' = Append(appended, [timestamp |-> m.t, value |-> Join(m.d),
                                    stream |-> selectedStream])
  /\ statsRef' = [statsRef EXCEPT !.totalSamples = Min(@ + 1, MaxWrites)]
  /\ UNCHANGED <<bufVars, connectTimeRef, rateWindowRef, rafVars, writes, hist,
                 writeTimes, firstSample>>

\* a mutant of AppendMarker: a marker marks the buffer dirty
AppendMarkerDirty(m) ==
  /\ Len(appended) < MaxMarkers
  /\ markers' = CapMarkers(Append(markers, [timestamp |-> m.t, value |-> Join(m.d)]))
  /\ renderPending' = TRUE
  /\ appended' = Append(appended, [timestamp |-> m.t, value |-> Join(m.d),
                                    stream |-> selectedStream])
  /\ dirtyRef' = TRUE
  /\ UNCHANGED <<bufVars, statVars, rafRef, frames, writes, hist, writeTimes,
                 firstSample>>

\* the marker branch of onMessage (258-266)
AppendMarker(m) ==
  /\ Len(appended) < MaxMarkers
  /\ markers' = CapMarkers(Append(markers, [timestamp |-> m.t, value |-> Join(m.d)]))
  /\ renderPending' = TRUE
  /\ appended' = Append(appended, [timestamp |-> m.t, value |-> Join(m.d),
                                    stream |-> selectedStream])
  /\ UNCHANGED <<bufVars, statVars, rafVars, writes, hist, writeTimes,
                 firstSample>>

\* onMessage (253-298), as the closure onMessageRef.current holds it
onMessage(m) ==
  IF Malformed(m)
  THEN UNCHANGED <<bufVars, statVars, rafVars, obsVars, markers, renderPending>>
  ELSE IF onMessageRef THEN AppendMarker(m) ELSE WriteSample(m)

\* ---------------------------------------------------------- TimeSeriesChart

\* App renders the chart for a selected numeric stream (218-230)
chartMounted(stream) == stream # NoStream /\ ~isStringStream(stream)

\* const idx = (writeHead - sampleCount + i + bufLen) % bufLen (163): the slot
\* of the i-th oldest sample.  SlotsRead: the slots draw reads with the
\* snapshot sn (162-169); SlotsWritten: the slots written after sn was taken
\* (total = the writes made so far).
SlotIndex(head, count, i) == (head - count + i + BufferSize) % BufferSize
SlotsRead(sn) ==
  { SlotIndex(sn.writeHead, sn.sampleCount, i) : i \in 0..(sn.sampleCount - 1) }
SlotsWritten(sn, total) ==
  { (sn.writeHead + j) % BufferSize :
      j \in 0..(total - sn.stats.totalSamples - 1) }

\* String(n) for a channel index: its decimal digits
RECURSIVE Digits(_)
Digits(n) == IF n < 10 THEN <<n>> ELSE Append(Digits(n \div 10), n % 10)

\* a < b as Array.prototype.sort() without a comparator compares them (111):
\* by code unit, a proper prefix first
StrLess(a, b) ==
  \E k \in 1..(Len(b)) :
    /\ \A i \in 1..(k - 1) : i <= Len(a) /\ a[i] = b[i]
    /\ \/ k = Len(a) + 1
       \/ k <= Len(a) /\ a[k] < b[k]

\* .sort() (111): no comparator, so the indices are ordered as strings
RECURSIVE sort(_)
sort(S) ==
  IF S = {} THEN <<>>
  ELSE LET first == CHOOSE x \in S :
                      \A y \in S \ {x} : StrLess(Digits(x), Digits(y))
       IN <<first>> \o sort(S \ {first})

\* activeChannels (111): the visible channels the buffers have, sorted
activeChannels(visibleChannels, numChannels) ==
  sort({i \in visibleChannels : i < numChannels})

\* draw (77-318) with the props of the snapshot sn over the arrays as they
\* are now: the placeholder (101-107) or the plot of the snapshot's samples.
draw(sn, nch, total) ==
  IF sn.sampleCount = 0 \/ nch = 0
  THEN [kind |-> "waiting", total |-> sn.stats.totalSamples, torn |-> FALSE]
  ELSE [kind |-> "plot", total |-> sn.stats.totalSamples,
        torn |-> SlotsRead(sn) \cap SlotsWritten(sn, total) # {}]

\* a mutant of latestTime: the slot at the write head is read
latestTimeAtHead(sn) == tsRef[sn.writeHead % BufferSize]

\* const latestTime = timestamps[(writeHead - 1 + bufLen) % bufLen] (115-116)
latestTime(sn) == tsRef[(sn.writeHead - 1 + BufferSize) % BufferSize]

\* the slots of the snapshot's samples that draw does not skip:
\* if (timestamps[idx] < startTime) continue, startTime = latestTime -
\* windowSeconds (117, 162-164)
WindowSlots(sn, win) ==
  { idx \in SlotsRead(sn) : ~(tsRef[idx] < latestTime(sn) - win) }

\* the slots of the samples a trace goes through, in the order of the loop
\* (207-221, 286-302): i = 0 .. sampleCount - 1, oldest first, skipping the
\* samples before startTime
plotted(sn, win) ==
  LET slot(i) == SlotIndex(sn.writeHead, sn.sampleCount, i - 1)
      kept(idx) == ~(tsRef[idx] < latestTime(sn) - win)
  IN SelectSeq([i \in 1..sn.sampleCount |-> slot(i)], kept)

\* the smallest and the largest of a nonempty set of numbers (166-167)
MinOf(vals) == CHOOSE v \in vals : \A u \in vals : v <= u
MaxOf(vals) == CHOOSE v \in vals : \A u \in vals : v >= u

\* a mutant of stackedRange: the padding is left out of a range that was
\* widened
stackedRangeUnpadded(sn, win, ch) ==
  LET vals == { buffersRef[ch][idx] : idx \in WindowSlots(sn, win) }
  IN IF vals = {} THEN <<>>
     ELSE LET same == MinOf(vals) = MaxOf(vals)
              min == IF same THEN MinOf(vals) - 1 ELSE MinOf(vals)
              max == IF same THEN MaxOf(vals) + 1 ELSE MaxOf(vals)
              range == max - min
          IN IF same THEN <<100 * min, 100 * max>>
             ELSE <<100 * min - 10 * range, 100 * max + 10 * range>>

\* The range of a lane in stacked mode (157-176), in hundredths: min and max
\* of the channel's samples in the window; if (min === max) { min -= 1;
\* max += 1 }; then padding = (max - min) * 0.1 is taken off min and added to
\* max.  <<>> when the lane is skipped (171).
stackedRange(sn, win, ch) ==
  LET vals == { buffersRef[ch][idx] : idx \in WindowSlots(sn, win) }
  IN IF vals = {} THEN <<>>
     ELSE LET same == MinOf(vals) = MaxOf(vals)
              min == IF same THEN MinOf(vals) - 1 ELSE MinOf(vals)
              max == IF same THEN MaxOf(vals) + 1 ELSE MaxOf(vals)
              range == max - min
          IN <<100 * min - 10 * range, 100 * max + 10 * range>>

\* a mutant of overlayRange: the hidden channels are counted as well
overlayRangeAllChannels(sn, win, vis) ==
  LET vals == UNION { { buffersRef[ch][idx] : idx \in WindowSlots(sn, win) } :
                        ch \in DOMAIN buffersRef }
  IN IF vals = {} THEN <<>>
     ELSE LET same == MinOf(vals) = MaxOf(vals)
              min == IF same THEN MinOf(vals) - 1 ELSE MinOf(vals)
              max == IF same THEN MaxOf(vals) + 1 ELSE MaxOf(vals)
              range == max - min
          IN <<100 * min - 5 * range, 100 * max + 5 * range>>

\* The range of the shared axis in overlay mode (224-243), in hundredths,
\* for the visible channels vis: globalMin and globalMax over the samples in
\* the window of the channels of activeChannels (111); if (globalMin ===
\* globalMax) { globalMin -= 1; globalMax += 1 }; then range * 0.05 is taken
\* off globalMin and added to globalMax.  <<>> when draw returns at 239.
overlayRange(sn, win, vis) ==
  LET vals == UNION { { buffersRef[ch][idx] : idx \in WindowSlots(sn, win) } :
                        ch \in vis \cap DOMAIN buffersRef }
  IN IF vals = {} THEN <<>>
     ELSE LET same == MinOf(vals) = MaxOf(vals)
              min == IF same THEN MinOf(vals) - 1 ELSE MinOf(vals)
              max == IF same THEN MaxOf(vals) + 1 ELSE MaxOf(vals)
              range == max - min
          IN <<100 * min - 5 * range, 100 * max + 5 * range>>

\* How far draw gets with the props of the snapshot sn, nch channel buffers
\* and the visible channels vis: the placeholder "Waiting for data..."
\* (101-107), nothing but the background (112), or the plot.
drawOutcome(sn, nch, vis) ==
  IF sn.sampleCount = 0 \/ nch = 0 THEN "waiting"
  ELSE IF activeChannels(vis, nch) = <<>> THEN "blank"
  ELSE "plot"

\* a mutant of drawGeometry: the time range is computed before the early
\* returns
drawGeometryEager(sn, nch, vis, win, isStacked) ==
  LET active == activeChannels(vis, nch)
      chans == { active[k] : k \in DOMAIN active }
      bufLen == Cardinality(DOMAIN tsRef)
      latestIdx == (sn.writeHead - 1 + bufLen) % bufLen
      ranges == IF isStacked
                THEN { stackedRange(sn, win, ch) : ch \in chans } \ { <<>> }
                ELSE { overlayRange(sn, win, chans) } \ { <<>> }
  IN IF drawOutcome(sn, nch, vis) # "plot"
     THEN [outcome |-> drawOutcome(sn, nch, vis), tsReads |-> {latestIdx},
           chReads |-> {}, divisors |-> {}]
     ELSE [outcome |-> "plot",
           tsReads |-> {latestIdx} \cup SlotsRead(sn),
           chReads |-> chans,
           divisors |-> { r[2] - r[1] : r \in ranges } \cup
                        { win, Min(6, win) } \cup
                        ( IF isStacked THEN { Len(active) } ELSE { 4 } )]

\* What a draw (77-318) computes: the slots of timestamps it indexes
\* (latestIdx 115-116, idx 163 / 208 / 228 / 291), the channel buffers it
\* indexes (151, 227), and the numbers it divides by: activeChannels.length
\* (147), max - min of each lane drawn (212) or globalMax - globalMin (260,
\* 294), windowSeconds (211, 293), timeSteps = Math.min(6,
\* Math.ceil(windowSeconds)) (310-313), the 4 of the grid (252).  Nothing of
\* this is reached after an early return.
drawGeometry(sn, nch, vis, win, isStacked) ==
  LET active == activeChannels(vis, nch)
      chans == { active[k] : k \in DOMAIN active }
      bufLen == Cardinality(DOMAIN tsRef)
      latestIdx == (sn.writeHead - 1 + bufLen) % bufLen
      ranges == IF isStacked
                THEN { stackedRange(sn, win, ch) : ch \in chans } \ { <<>> }
                ELSE { overlayRange(sn, win, chans) } \ { <<>> }
  IN IF drawOutcome(sn, nch, vis) # "plot"
     THEN [outcome |-> drawOutcome(sn, nch, vis), tsReads |-> {},
           chReads |-> {}, divisors |-> {}]
     ELSE [outcome |-> "plot",
           tsReads |-> {latestIdx} \cup SlotsRead(sn),
           chReads |-> chans,
           divisors |-> { r[2] - r[1] : r \in ranges } \cup
                        { win, Min(6, win) } \cup
                        ( IF isStacked THEN { Len(active) } ELSE { 4 } )]

\* a mutant of redraw: the effect draws whether paused or not
redrawAlways(sn, nch, isPaused) == draw(sn, nch, statsRef.totalSamples)

\* the redraw effect (321-325) of a render whose props are sn
redraw(sn, nch, isPaused) ==
  IF isPaused THEN screen ELSE draw(sn, nch, statsRef.totalSamples)

\* ------------------------------------------------------------------ actions

\* ws.onopen (95-97)
WsOpen ==
  /\ wsRef = "connecting"
  /\ wsRef' = "open"
  /\ wsState' = "open"
  /\ renderPending' = (renderPending \/ wsState # "open")
  /\ firstSample' = 0
  /\ UNCHANGED <<reconnectDelay, call, recVars,
                 appVars, reconnectTimer, onMessageRef, urlRef, orphans,
                 bufVars, statVars, rafVars, markers, snap, chartVars,
                 drawPending, now, malformed, screen, writes, hist,
                 writeTimes, appended>>

\* ws.onmessage (99-107) of the open socket: the server sends what the
\* selected stream's format says.
WsMessageOf(num, str) ==
  /\ wsRef = "open"
  /\ \E m \in (IF isStringStream(selectedStream) THEN str ELSE num) :
       onMessage(m)
  /\ UNCHANGED <<reconnectDelay, call, recVars,
                 appVars, wsVars, snap, chartVars, drawPending, now,
                 malformed, screen>>

\* ws.onerror (109-111); the socket's close event follows
WsError ==
  /\ wsRef \in {"connecting", "open"}
  /\ wsRef' = "failed"
  /\ wsState' = "error"
  /\ renderPending' = (renderPending \/ wsState # "error")
  /\ firstSample' = 0
  /\ UNCHANGED <<reconnectDelay, call, recVars,
                 appVars, reconnectTimer, onMessageRef, urlRef, orphans,
                 bufVars, statVars, rafVars, markers, snap, chartVars,
                 drawPending, now, malformed, screen, writes, hist,
                 writeTimes, appended>>

\* a mutant of WsClose: the reconnect is scheduled whatever reconnectDelay is
WsCloseAlwaysReconnects ==
  /\ wsRef \in {"open", "failed"}
  /\ wsState' = "closed"
  /\ wsRef' = "null"
  /\ reconnectTimer' = IF urlRef # NoUrl THEN reconnectTimer + 1
                       ELSE reconnectTimer
  /\ renderPending' = (renderPending \/ wsState # "closed")
  /\ firstSample' = 0
  /\ UNCHANGED <<reconnectDelay, call, recVars,
                 appVars, onMessageRef, urlRef, orphans, bufVars, statVars,
                 rafVars, markers, snap, chartVars, drawPending, now,
                 malformed, screen,
                 writes, hist, writeTimes, appended>>

\* ws.onclose (113-119): the server closed an open socket, or the close that
\* follows an error
WsClose ==
  /\ wsRef \in {"open", "failed"}
  /\ wsState' = "closed"
  /\ wsRef' = "null"
  /\ reconnectTimer' = IF reconnectDelay > 0 /\ urlRef # NoUrl
                       THEN reconnectTimer + 1
                       ELSE reconnectTimer
  /\ renderPending' = (renderPending \/ wsState # "closed")
  /\ firstSample' = 0
  /\ UNCHANGED <<reconnectDelay, call, recVars,
                 appVars, onMessageRef, urlRef, orphans, bufVars, statVars,
                 rafVars, markers, snap, chartVars, drawPending, now,
                 malformed, screen,
                 writes, hist, writeTimes, appended>>

\* the error event of a socket the hook closed while it was connecting:
\* its onerror (109-111) is still attached
OrphanError ==
  /\ orphans > 0
  /\ orphans' = orphans - 1
  /\ wsState' = "error"
  /\ renderPending' = (renderPending \/ wsState # "error")
  /\ UNCHANGED <<reconnectDelay, call, recVars,
                 appVars, wsRef, reconnectTimer, onMessageRef, urlRef,
                 bufVars, statVars, rafVars, markers, snap, chartVars,
                 drawPending, now, malformed, screen, obsVars>>

\* setTimeout(connect, reconnectDelay) fires (117)
ReconnectTimeout ==
  /\ reconnectTimer > 0
  /\ LET w == connect([WsRec EXCEPT !.timer = reconnectTimer - 1], urlRef)
     IN /\ SetWs(w)
        /\ renderPending' = (renderPending \/ w.state # wsState)
        /\ firstSample' = IF w.ref = "open" THEN firstSample ELSE 0
  /\ UNCHANGED <<reconnectDelay, call, recVars,
                 appVars, onMessageRef, urlRef, bufVars, statVars, rafVars,
                 markers, snap, chartVars, drawPending, now, malformed,
                 screen, writes, hist, writeTimes, appended>>

\* a mutant of RafCallback: the callback leaves dirtyRef set
RafCallbackKeepsDirty ==
  /\ \E f \in frames : frames' = frames \ {f}
  /\ rafRef' = NoFrame
  /\ renderPending' = TRUE
  /\ UNCHANGED <<reconnectDelay, call, recVars, dirtyRef,
                 appVars, wsVars, bufVars, statVars, markers, snap, chartVars,
                 drawPending, now, malformed, screen, obsVars>>

\* the animation-frame callback (245-249)
RafCallback ==
  /\ \E f \in frames : frames' = frames \ {f}
  /\ rafRef' = NoFrame
  /\ dirtyRef' = FALSE
  /\ renderPending' = TRUE
  /\ UNCHANGED <<reconnectDelay, call, recVars,
                 appVars, wsVars, bufVars, statVars, markers, snap, chartVars,
                 drawPending, now, malformed, screen, obsVars>>

\* A render of App requested by a state update of a socket event, of the
\* marker branch or of the frame callback: the body of useStreamData, and the
\* chart with the new props; its redraw effect (deps draw, sampleCount,
\* writeHead) is left pending when they changed.
Render ==
  /\ renderPending
  /\ ~drawPending
  /\ LET r == useStreamData(selectedStream, wsState)
     IN /\ SetRendered(r)
        /\ drawPending' =
             (/\ chartMounted(selectedStream)
              /\ \/ r.realloc
                 \/ r.snap.sampleCount # snap.sampleCount
                 \/ r.snap.writeHead # snap.writeHead)
  /\ renderPending' = FALSE
  /\ UNCHANGED <<reconnectDelay, call, recVars,
                 appVars, wsVars, statsRef, rateWindowRef, rafVars, markers,
                 chartVars, now, malformed, screen, firstSample>>

\* a mutant of DrawEffect: the draw empties the buffer it has drawn
DrawEffectClearing ==
  /\ drawPending
  /\ drawPending' = FALSE
  /\ screen' = redraw(snap, Cardinality(DOMAIN buffersRef), paused)
  /\ sampleCountRef' = 0
  /\ UNCHANGED <<reconnectDelay, call, recVars,
                 appVars, wsVars, buffersRef, tsRef, writeHeadRef, statVars,
                 rafVars, markers, snap,
                 chartVars, renderPending, now, malformed, obsVars>>

\* the chart's redraw effect (321-325) of the last render
DrawEffect ==
  /\ drawPending
  /\ drawPending' = FALSE
  /\ screen' = redraw(snap, Cardinality(DOMAIN buffersRef), paused)
  /\ UNCHANGED <<reconnectDelay, call, recVars,
                 appVars, wsVars, bufVars, statVars, rafVars, markers, snap,
                 chartVars, renderPending, now, malformed, obsVars>>

\* App.handleSelectStream (124-139) for a click on `stream`, the render it
\* causes and that render's effects: disconnect() (321-327), the new
\* selection, the body of useStreamData, the chart (a chart that stays
\* mounted keeps its state), the ref effects (74-80), the url effect, and
\* the stream-change effect of useRecording (types.ts 108-112).
HandleSelectStream(stream) ==
  /\ ~renderPending
  /\ ~drawPending
  /\ LET deselect == selectedStream = stream
         sel == IF deselect THEN NoStream ELSE stream
         ds == IF deselect THEN downsample ELSE autoDownsample(stream)
         w == close(WsRec)
         r == useStreamData(sel, w.state)
         url == wsUrl(sel, ds)
         w2 == urlEffect(w, url)
         keep == chartMounted(selectedStream) /\ chartMounted(sel)
         p == IF keep THEN paused ELSE FALSE
     IN /\ selectedStream' = sel
        /\ downsample' = ds
        /\ rafRef' = NoFrame
        /\ frames' = frames \ {rafRef}
        /\ SetRendered(r)
        /\ onMessageRef' = isStringStream(sel)
        /\ urlRef' = url
        /\ SetWs(w2)
        /\ renderPending' = (renderPending \/ w2.state # w.state)
        /\ paused' = p
        /\ windowSeconds' = IF keep THEN windowSeconds ELSE InitialWindow
        /\ screen' = IF chartMounted(sel)
                     THEN redraw(r.snap, Cardinality(DOMAIN r.buffers), p)
                     ELSE NoScreen
  /\ drawPending' = FALSE
  /\ firstSample' = 0
  /\ recording' = NoRecording
  /\ busy' = FALSE
  /\ error' = NoError
  /\ UNCHANGED <<reconnectDelay, call, requests,
                 dirtyRef, statsRef, rateWindowRef, markers, now, malformed>>

\* the streams clicked in the specification that explores the scheduling
ClickedUids == {2, 3, 4}

SelectStream == \E stream \in ClickedUids : HandleSelectStream(stream)

WsMessage == WsMessageOf(OneNumSample \cup BadMessages, OneStrSample)

\* the downsample slider (191-197) moved to n, the render it causes and the
\* url effect of the changed wsUrl
SetDownsample ==
  /\ ~renderPending
  /\ ~drawPending
  /\ selectedStream # NoStream
  /\ ~isStringStream(selectedStream)
  /\ \E n \in (1..MaxDownsample) \ {downsample} :
       LET r == useStreamData(selectedStream, wsState)
           url == wsUrl(selectedStream, n)
           w2 == urlEffect(WsRec, url)
       IN /\ downsample' = n
          /\ SetRendered(r)
          /\ urlRef' = url
          /\ SetWs(w2)
          /\ renderPending' = (renderPending \/ w2.state # wsState)
          /\ screen' =
               IF \/ r.snap.sampleCount # snap.sampleCount
                  \/ r.snap.writeHead # snap.writeHead
               THEN redraw(r.snap, Cardinality(DOMAIN r.buffers), paused)
               ELSE screen
  /\ drawPending' = FALSE
  /\ firstSample' = 0
  /\ UNCHANGED <<reconnectDelay, call, recVars,
                 selectedStream, onMessageRef, statsRef, rateWindowRef,
                 rafVars, markers, chartVars, now, malformed>>

\* the Pause/Resume button (353-355): pausedRef follows paused in the render;
\* the redraw effect's deps are unchanged, so it does not run
TogglePause ==
  /\ ~drawPending
  /\ chartMounted(selectedStream)
  /\ paused' = ~paused
  /\ UNCHANGED <<reconnectDelay, call, recVars,
                 appVars, wsVars, bufVars, statVars, rafVars, markers, snap,
                 windowSeconds, renderPending, drawPending, now, malformed, screen,
                 obsVars>>

\* the Window select (332-341): only the chart renders again, with the props
\* of the last App render; draw is a new callback, so the redraw effect runs
SetWindowSeconds ==
  /\ ~drawPending
  /\ chartMounted(selectedStream)
  /\ \E w \in WindowChoices \ {windowSeconds} : windowSeconds' = w
  /\ screen' = redraw(snap, Cardinality(DOMAIN buffersRef), paused)
  /\ UNCHANGED <<reconnectDelay, call, recVars,
                 appVars, wsVars, bufVars, statVars, rafVars, markers, snap,
                 paused, renderPending, drawPending, now, malformed, obsVars>>

Next ==
  \/ SelectStream
  \/ SetDownsample
  \/ WsOpen
  \/ WsMessage
  \/ WsError
  \/ WsClose
  \/ OrphanError
  \/ ReconnectTimeout
  \/ RafCallback
  \/ Render
  \/ DrawEffect
  \/ TogglePause
  \/ SetWindowSeconds

Spec == Init /\ [][Next]_vars


\* The specification that explores the buffer's contents: numeric streams of
\* two channels and of one, every timestamp and payload of the sets above,
\* and the socket, frame and render steps that carry the samples.
DataUids == {1, 3}

SelectStreamData == \E stream \in DataUids : HandleSelectStream(stream)

WsMessageData == WsMessageOf(Messages(NumPayloads), {})

NextData ==
  \/ SelectStreamData
  \/ WsOpen
  \/ WsMessageData
  \/ WsClose
  \/ ReconnectTimeout
  \/ RafCallback
  \/ Render
  \/ DrawEffect

SpecData == Init /\ [][NextData]_vars


\* The specification that explores the clock: a numeric stream (uid 2, whose
\* selection sets downsample to 3 so that the slider reconnects the socket),
\* its samples, and performance.now() moving on between the steps.
ClockUids == {2}

SelectStreamClock == \E stream \in ClockUids : HandleSelectStream(stream)

WsMessageClock == WsMessageOf(OneNumSample, {})

\* performance.now() / 1000 has moved on by one second; a requested render
\* and its effects are carried out well within a second
Tick ==
  /\ now < MaxClock
  /\ ~renderPending
  /\ ~drawPending
  /\ now' = now + OneSecond
  /\ UNCHANGED <<reconnectDelay, call, recVars,
                 appVars, wsVars, bufVars, statVars, rafVars, markers, snap,
                 chartVars, renderPending, drawPending, screen, obsVars,
                 malformed>>

NextClock ==
  \/ SelectStreamClock
  \/ SetDownsample
  \/ WsOpen
  \/ WsMessageClock
  \/ WsClose
  \/ ReconnectTimeout
  \/ RafCallback
  \/ Render
  \/ DrawEffect
  \/ Tick

SpecClock == Init /\ [][NextClock]_vars


\* The specification that explores the marker log and the routing of the
\* events: two string streams and a numeric one, marker events of one value
\* and of two, and malformed events.
MarkerUids == {3, 4, 5}

SelectStreamMarkers == \E stream \in MarkerUids : HandleSelectStream(stream)

\* the marker events: they differ in timestamp and in payload
MarkerSamples ==
  { [kind |-> "sample", t |-> 1, d |-> <<"a">>],
    [kind |-> "sample", t |-> 2, d |-> <<"a", "b">>] }

WsMessageMarkers == WsMessageOf(OneNumSample, MarkerSamples)

\* ws.onmessage (99-107) delivering an event that the guard of onMessage
\* rejects; the delivery is counted
WsMalformed ==
  /\ wsRef = "open"
  /\ malformed < MaxMalformed
  /\ \E m \in BadMessages : onMessage(m)
  /\ malformed' = malformed + 1
  /\ UNCHANGED <<reconnectDelay, call, recVars,
                 appVars, wsVars, snap, chartVars, drawPending, now, screen>>

NextMarkers ==
  \/ SelectStreamMarkers
  \/ WsOpen
  \/ WsMessageMarkers
  \/ WsMalformed
  \/ WsClose
  \/ ReconnectTimeout
  \/ RafCallback
  \/ Render
  \/ DrawEffect

SpecMarkers == Init /\ [][NextMarkers]_vars


\* The specification that explores what the chart draws: the two-channel
\* numeric stream, every timestamp and payload of the sets above, the frames
\* and renders that bring the samples to the chart, and the Window select.
ChartUids == {1}

SelectStreamChart == \E stream \in ChartUids : HandleSelectStream(stream)

NextChart ==
  \/ SelectStreamChart
  \/ WsOpen
  \/ WsMessageData
  \/ RafCallback
  \/ Render
  \/ DrawEffect
  \/ SetWindowSeconds

SpecChart == Init /\ [][NextChart]_vars


\* ------------------------------------------------------------ useRecording
\* useRecording (types.ts 90-162) and the recording controls of App.  A
\* request is a fetch that has been sent and has not completed; the server
\* answers it with a session or the fetch fails, at any later time.  Nothing
\* cancels a request.  The requests in flight are a bag: two requests for the
\* same url are two requests.

\* the RecordingSession (types.ts 27-39) the server returns for a stream
Session(uid, active) == [streamUid |-> uid, active |-> active]

Request(kind, uid) == [kind |-> kind, streamUid |-> uid]

\* the message of a failed request (134, 153, 103)
Failed(kind) == IF kind = "start" THEN "Failed to start recording"
                ELSE IF kind = "stop" THEN "Failed to stop recording"
                ELSE "Failed to refresh recording"

\* const isActive = !!recording?.active (RecordingControls.tsx 34)
isActive == recording # NoRecording /\ recording.active

\* the render of App that a click's state updates cause, with its effects:
\* the body of useStreamData and the chart's redraw
RenderClick ==
  LET r == useStreamData(selectedStream, wsState)
  IN /\ SetRendered(r)
     /\ screen' =
          IF \/ r.snap.sampleCount # snap.sampleCount
             \/ r.snap.writeHead # snap.writeHead
          THEN redraw(r.snap, Cardinality(DOMAIN r.buffers), paused)
          ELSE screen
     /\ drawPending' = FALSE
     /\ renderPending' = FALSE
     /\ UNCHANGED <<reconnectDelay, call, appVars, wsVars, statsRef,
                    rateWindowRef, rafVars, markers, chartVars, now,
                    malformed, firstSample>>

\* a state update of useRecording made when a request completes: a render of
\* App is requested
Completed(r) ==
  /\ r \in BagToSet(requests)
  /\ requests' = requests (-) SetToBag({r})
  /\ renderPending' = TRUE
  /\ UNCHANGED <<reconnectDelay, call, appVars, wsVars, bufVars, statVars,
                 rafVars, markers, snap, chartVars, drawPending, now,
                 malformed, screen, obsVars>>

\* a mutant of StartRecording: the previous error is kept
StartRecordingKeepsError ==
  /\ ~renderPending /\ ~drawPending
  /\ selectedStream # NoStream
  /\ ~busy /\ ~isActive
  /\ BagCardinality(requests) < MaxRequests
  /\ busy' = TRUE
  /\ requests' = requests (+) SetToBag({Request("start", selectedStream)})
  /\ UNCHANGED <<recording, error>>
  /\ RenderClick

\* the Start button (RecordingControls.tsx 50, disabled when busy or active):
\* handleStartRecording (141-145) and start (114-140) up to the fetch
StartRecording ==
  /\ ~renderPending /\ ~drawPending
  /\ selectedStream # NoStream
  /\ ~busy /\ ~isActive
  /\ BagCardinality(requests) < MaxRequests
  /\ busy' = TRUE
  /\ error' = NoError
  /\ requests' = requests (+) SetToBag({Request("start", selectedStream)})
  /\ UNCHANGED recording
  /\ RenderClick

\* start after the fetch: setRecording(data) (132), finally setBusy(false)
StartSucceeds ==
  \E r \in BagToSet(requests) :
    /\ r.kind = "start"
    /\ recording' = Session(r.streamUid, TRUE)
    /\ busy' = FALSE
    /\ UNCHANGED error
    /\ Completed(r)

\* start after a failed fetch: setError (134), finally setBusy(false)
StartFails ==
  \E r \in BagToSet(requests) :
    /\ r.kind = "start"
    /\ error' = Failed("start")
    /\ busy' = FALSE
    /\ UNCHANGED recording
    /\ Completed(r)

\* the Stop button (RecordingControls.tsx 53, disabled when busy or not
\* active): stop (142-159) up to the fetch
StopRecording ==
  /\ ~renderPending /\ ~drawPending
  /\ selectedStream # NoStream
  /\ ~busy /\ isActive
  /\ BagCardinality(requests) < MaxRequests
  /\ busy' = TRUE
  /\ error' = NoError
  /\ requests' = requests (+) SetToBag({Request("stop", recording.streamUid)})
  /\ UNCHANGED recording
  /\ RenderClick

\* stop after the fetch: setRecording(data) (151), finally setBusy(false)
StopSucceeds ==
  \E r \in BagToSet(requests) :
    /\ r.kind = "stop"
    /\ recording' = Session(r.streamUid, FALSE)
    /\ busy' = FALSE
    /\ UNCHANGED error
    /\ Completed(r)

\* stop after a failed fetch: setError (153), finally setBusy(false)
StopFails ==
  \E r \in BagToSet(requests) :
    /\ r.kind = "stop"
    /\ error' = Failed("stop")
    /\ busy' = FALSE
    /\ UNCHANGED recording
    /\ Completed(r)

\* the interval of the controls while the recording is active
\* (RecordingControls.tsx 27-31): refresh (95-105) up to the fetch
RefreshTick ==
  /\ ~renderPending
  /\ isActive
  /\ BagCardinality(requests) < MaxRequests
  /\ requests' = requests (+) SetToBag({Request("refresh", recording.streamUid)})
  /\ UNCHANGED <<recording, busy, error, renderPending>>
  /\ UNCHANGED <<reconnectDelay, call, appVars, wsVars, bufVars, statVars,
                 rafVars, markers, snap, chartVars, drawPending, now,
                 malformed, screen, obsVars>>

\* refresh after the fetch: setRecording(data) (101); the session is active
\* or has been stopped
RefreshSucceeds ==
  \E r \in BagToSet(requests) : \E active \in BOOLEAN :
    /\ r.kind = "refresh"
    /\ recording' = Session(r.streamUid, active)
    /\ UNCHANGED <<busy, error>>
    /\ Completed(r)

\* refresh after a failed fetch: setError (103)
RefreshFails ==
  \E r \in BagToSet(requests) :
    /\ r.kind = "refresh"
    /\ error' = Failed("refresh")
    /\ UNCHANGED <<recording, busy>>
    /\ Completed(r)

RecordingUids == {2, 4}

SelectStreamRecording ==
  \E stream \in RecordingUids : HandleSelectStream(stream)

NextRecording ==
  \/ SelectStreamRecording
  \/ Render
  \/ StartRecording
  \/ StartSucceeds
  \/ StartFails
  \/ StopRecording
  \/ StopSucceeds
  \/ StopFails
  \/ RefreshTick
  \/ RefreshSucceeds
  \/ RefreshFails

SpecRecording == Init /\ [][NextRecording]_vars


\* ----------------------------------------------------------- the frames
\* One numeric stream, selected and deselected, its samples, the frame
\* callbacks and the renders, and the Pause button.  A requested animation
\* frame is delivered unless cancelled, a requested render is carried out and
\* a pending effect is run: weak fairness on RafCallback, Render and
\* DrawEffect.  Nothing obliges the server to send or the user to click.

NextFrames ==
  \/ SelectStreamClock
  \/ WsOpen
  \/ WsMessageClock
  \/ RafCallback
  \/ Render
  \/ DrawEffect
  \/ TogglePause

SpecFrames ==
  /\ Init /\ [][NextFrames]_vars
  /\ WF_vars(RafCallback) /\ WF_vars(Render) /\ WF_vars(DrawEffect)


\* ----------------------------------------------------------- the socket
\* useWebSocket alone, for either value of its reconnectDelay option ("0 =
\* no reconnect", 50): selections, the socket's events and the reconnect
\* timeout, no sample.  The timeout of a pending setTimeout fires (117):
\* weak fairness on ReconnectTimeout.

SocketUids == {2, 4}

SelectStreamSocket == \E stream \in SocketUids : HandleSelectStream(stream)

InitSocket ==
  InitStream /\ reconnectDelay \in {0, ReconnectDelay} /\ call = NoCall

NextSocket ==
  \/ SelectStreamSocket
  \/ WsOpen
  \/ WsError
  \/ WsClose
  \/ OrphanError
  \/ ReconnectTimeout
  \/ Render

SpecSocket ==
  InitSocket /\ [][NextSocket]_vars /\ WF_vars(ReconnectTimeout)


\* ------------------------------------------------ the display's functions
\* The functions of the display whose result depends on their arguments
\* only: the initial state holds the arguments of one application, drawn
\* from bounded sets, and the action of the function applies it.

\* an application of fn to args that has not been evaluated
Pending(fn, args) ==
  [fn |-> fn, args |-> args, done |-> FALSE, result |-> <<>>]

\* everything but the last application
streamVars ==
  <<appVars, wsVars, bufVars, statVars, rafVars, chartVars, obsVars, markers,
    snap, renderPending, drawPending, now, screen, malformed, reconnectDelay,
    recVars>>

\* The channel counts a chart is drawn with and the channels that can be
\* visible.
ChannelCounts == {2, MaxChannels}
ChannelSets == SUBSET (0..(MaxChannels - 1))

\* draw computes the lanes of a stacked chart (111, 145-151)
SortChannels ==
  /\ call.fn = "activeChannels" /\ ~call.done
  /\ call' = [call EXCEPT !.done = TRUE,
                          !.result = activeChannels(call.args[1], call.args[2])]
  /\ UNCHANGED streamVars

\* ctx.measureText(text).width: the sum of the advances of the characters;
\* a narrow and a wide letter, and the dot of the ellipsis
CharWidth(c) == IF c = "m" THEN 2 ELSE 1
RECURSIVE Width(_)
Width(text) ==
  IF text = <<>> THEN 0 ELSE CharWidth(Head(text)) + Width(Tail(text))

\* const ellipsis = "..." (8)
Ellipsis == <<".", ".", ".">>

\* text.slice(0, n)
Slice(text, n) == SubSeq(text, 1, n)

\* a mutant of fitSearch: a candidate that fills the budget exactly is
\* rejected
RECURSIVE fitSearchStrict(_, _, _, _)
fitSearchStrict(text, maxWidth, lo, hi) ==
  IF ~(lo < hi) THEN lo
  ELSE LET mid == (lo + hi + 1) \div 2
       IN IF Width(Slice(text, mid) \o Ellipsis) < maxWidth
          THEN fitSearchStrict(text, maxWidth, mid, hi)
          ELSE fitSearchStrict(text, maxWidth, lo, mid - 1)

\* the while loop of fitTextToWidth (13-18): mid = Math.ceil((lo + hi) / 2);
\* lo = mid when the candidate fits, hi = mid - 1 when it does not
RECURSIVE fitSearch(_, _, _, _)
fitSearch(text, maxWidth, lo, hi) ==
  IF ~(lo < hi) THEN lo
  ELSE LET mid == (lo + hi + 1) \div 2
       IN IF Width(Slice(text, mid) \o Ellipsis) <= maxWidth
          THEN fitSearch(text, maxWidth, mid, hi)
          ELSE fitSearch(text, maxWidth, lo, mid - 1)

\* fitTextToWidth (4-20)
fitTextToWidth(text, maxWidth) ==
  IF maxWidth <= 0 THEN <<>>
  ELSE IF Width(text) <= maxWidth THEN text
  ELSE IF Width(Ellipsis) > maxWidth THEN <<>>
  ELSE Slice(text, fitSearch(text, maxWidth, 0, Len(text))) \o Ellipsis

\* The labels and the budgets fitTextToWidth is applied to (194-198, 268-272:
\* a channel name and margin.left - 14).
Labels == UNION { [1..n -> {"i", "m"}] : n \in 0..MaxLabel }
Budgets == 0..MaxBudget

\* draw fits a channel label into the gutter (194-198)
FitLabel ==
  /\ call.fn = "fitTextToWidth" /\ ~call.done
  /\ call' = [call EXCEPT !.done = TRUE,
                          !.result = fitTextToWidth(call.args[1], call.args[2])]
  /\ UNCHANGED streamVars

\* const margin = { top: 8, right: 12, bottom: 24, left: leftGutter } (133)
MarginTop == 8
MarginRight == 12
MarginBottom == 24

\* The range a trace is mapped with, in hundredths, from the smallest and the
\* largest sample in the window: widened by 1 on each side when they are
\* equal, then padded by pct hundredths of the range on each side (172-176
\* with 0.1, 240-243 with 0.05)
paddedRange(vmin, vmax, pct) ==
  LET min == IF vmin = vmax THEN vmin - 1 ELSE vmin
      max == IF vmin = vmax THEN vmax + 1 ELSE vmax
      range == max - min
  IN <<100 * min - pct * range, 100 * max + pct * range>>

\* One point of a trace (207-221, 286-302) for a sample of value v that is dt
\* after startTime, in a canvas of w by h with a label gutter of `gutter` and
\* n lanes, the samples in the window ranging from vmin to vmax.
\*   x - margin.left = ((t - startTime) / windowSeconds) * plotW   (211, 293)
\*   stacked: y - laneTop = laneH - ((v - min) / (max - min)) * (laneH - 2),
\*            laneH = plotH / n                                    (147, 212)
\*   overlay: y - margin.top = (1 - (v - min) / (max - min)) * plotH  (294)
\* The result holds x - margin.left times windowSeconds, and the offset y of
\* the point below the top of its area and the height of that area, both
\* times n * (max - min) in stacked mode and times (max - min) in overlay
\* mode: integers, and of the same sign and order as the pixels.
tracePoint(p) ==
  LET plotW == p.w - p.gutter - MarginRight
      plotH == p.h - MarginTop - MarginBottom
      r == paddedRange(p.vmin, p.vmax, IF p.stacked THEN 10 ELSE 5)
      D == r[2] - r[1]
      N == 100 * p.v - r[1]
  IN IF p.stacked
     THEN [x |-> p.dt * plotW, y |-> plotH * D - N * (plotH - 2 * p.n),
           area |-> plotH * D]
     ELSE [x |-> p.dt * plotW, y |-> (D - N) * plotH, area |-> plotH * D]

\* The canvases, gutters (130: 90 to 240), lane counts and samples a trace is
\* drawn for; a plotted sample is not before startTime (208, 291) and lies
\* between the smallest and the largest sample of its window.
CanvasWidths == {320, 800}
CanvasHeights == {150, 400}
Gutters == {90, 240}
LaneCounts == {1, 8, MaxLanes}
SampleValues == 1..3
TracePoints ==
  { p \in [stacked : BOOLEAN, w : CanvasWidths, h : CanvasHeights,
           gutter : Gutters, n : LaneCounts, vmin : SampleValues,
           vmax : SampleValues, v : SampleValues, win : WindowChoices,
           dt : 0..1] :
      p.vmin <= p.v /\ p.v <= p.vmax }

\* draw plots one sample (207-221, 286-302)
PlotPoint ==
  /\ call.fn = "tracePoint" /\ ~call.done
  /\ call' = [call EXCEPT !.done = TRUE, !.result = tracePoint(call.args[1])]
  /\ UNCHANGED streamVars

\* markers.slice(-n): the last n entries, all of them when there are fewer
SliceLast(log, n) ==
  SubSeq(log, IF Len(log) > n THEN Len(log) - n + 1 ELSE 1, Len(log))

\* .reverse()
Reverse(seq) == [i \in 1..Len(seq) |-> seq[Len(seq) - i + 1]]

\* a mutant of EventMarkerTimeline: the rows are left in the order of the log
EventMarkerTimelineOldestFirst(log) ==
  IF Len(log) = 0 THEN [kind |-> "empty", total |-> 0, rows |-> <<>>]
  ELSE [kind |-> "list", total |-> Len(log),
        rows |-> SliceLast(log, TimelineCap)]

\* EventMarkerTimeline (5-32): the empty state for an empty log (6-13), else
\* the heading with the total and a row for each entry of
\* markers.slice(-100).reverse() (16, 22-28)
EventMarkerTimeline(log) ==
  IF Len(log) = 0 THEN [kind |-> "empty", total |-> 0, rows |-> <<>>]
  ELSE [kind |-> "list", total |-> Len(log),
        rows |-> Reverse(SliceLast(log, TimelineCap))]

\* the marker logs the timeline is rendered with
MarkerLogs ==
  UNION { [1..n -> { [timestamp |-> 1, value |-> "a"],
                     [timestamp |-> 2, value |-> "b"],
                     [timestamp |-> 3, value |-> "c"] }] : n \in 0..MaxLog }

\* App renders the timeline of a string stream
ShowTimeline ==
  /\ call.fn = "EventMarkerTimeline" /\ ~call.done
  /\ call' = [call EXCEPT !.done = TRUE,
                          !.result = EventMarkerTimeline(call.args[1])]
  /\ UNCHANGED streamVars

\* the applications of the functions
Calls ==
  { Pending("activeChannels", <<visibleChannels, numChannels>>) :
      visibleChannels \in ChannelSets, numChannels \in ChannelCounts }
  \cup
  { Pending("fitTextToWidth", <<text, maxWidth>>) :
      text \in Labels, maxWidth \in Budgets }
  \cup
  { Pending("EventMarkerTimeline", <<log>>) : log \in MarkerLogs }
  \cup
  { Pending("tracePoint", <<p>>) : p \in TracePoints }

InitPure ==
  InitStream /\ reconnectDelay = ReconnectDelay /\ call \in Calls

NextPure ==
  \/ SortChannels
  \/ FitLabel
  \/ ShowTimeline
  \/ PlotPoint

SpecPure == InitPure /\ [][NextPure]_vars


\* ------------------------------------------------------------------- claims

\* a step that is an accepted numeric write
IsWrite == statsRef'.totalSamples = statsRef.totalSamples + 1

\* the sample event of the last accepted write
LastWrite == hist[Len(hist)]

\* C1: after any sequence of accepted writes since the buffers were allocated,
\* sampleCount = min(writes, capacity) and writeHead = writes mod capacity, so
\* 0 <= writeHead < capacity and 0 <= sampleCount <= capacity.
C1_Counts ==
  /\ sampleCountRef = Min(writes, BufferSize)
  /\ writeHeadRef = writes % BufferSize
  /\ 0 <= writeHeadRef /\ writeHeadRef < BufferSize
  /\ 0 <= sampleCountRef /\ sampleCountRef <= BufferSize

\* C1 witness: the buffer has wrapped and the head is past slot 0 again
C1_Wrapped ==
  /\ writes > BufferSize
  /\ writeHeadRef = 1
  /\ sampleCountRef = BufferSize

\* C2 as claimed: for every i in [0, sampleCount) the slot of the i-th oldest
\* sample holds the timestamp of the i-th oldest of the sampleCount most recent
\* writes and, in every channel sequence, a value of that same sample event.
C2_AllChannelsAligned ==
  \A i \in 0..(sampleCountRef - 1) :
    LET idx == SlotIndex(writeHeadRef, sampleCountRef, i)
        w == hist[i + 1]
    IN /\ tsRef[idx] = w.t
       /\ \A ch \in DOMAIN buffersRef :
            ch < Len(w.d) /\ buffersRef[ch][idx] = w.d[ch + 1]

\* C2 amended: the slot holds that write's timestamp and, for every channel
\* the write carried a value for, that value.
C2_WrittenChannelsAligned ==
  /\ Len(hist) = sampleCountRef
  /\ \A i \in 0..(sampleCountRef - 1) :
       LET idx == SlotIndex(writeHeadRef, sampleCountRef, i)
           w == hist[i + 1]
       IN /\ tsRef[idx] = w.t
          /\ \A ch \in DOMAIN buffersRef :
               ch < Len(w.d) => buffersRef[ch][idx] = w.d[ch + 1]

\* C2 witness: a wrapped two-channel buffer whose samples differ in timestamp
\* and in both channels
C2_WrappedDistinct ==
  /\ writes > BufferSize
  /\ Cardinality(DOMAIN buffersRef) = 2
  /\ \A i \in 1..Len(hist) : Len(hist[i].d) >= 2
  /\ hist[1].t # hist[2].t
  /\ hist[1].d[1] # hist[2].d[1]
  /\ hist[1].d[2] # hist[2].d[2]

\* C3: an accepted write changes only the slot at the write head: every other
\* slot of the timestamps and of every channel is unchanged, and no sequence
\* is added, dropped or resized.
C3_OnlyHeadSlot ==
  [][IsWrite =>
       /\ DOMAIN tsRef' = DOMAIN tsRef
       /\ DOMAIN buffersRef' = DOMAIN buffersRef
       /\ \A idx \in DOMAIN tsRef \ {writeHeadRef} :
            /\ tsRef'[idx] = tsRef[idx]
            /\ \A ch \in DOMAIN buffersRef :
                 buffersRef'[ch][idx] = buffersRef[ch][idx]]_vars

\* C3 witness: a write went to a full buffer whose surviving sample differs
\* from the one just written
C3_OverwroteOldest ==
  /\ writes > BufferSize
  /\ sampleCountRef = BufferSize
  /\ hist[1].t # LastWrite.t
  /\ hist[1].d # LastWrite.d

\* C4: a write whose values are fewer or more than the channels stores the
\* timestamp, writes the channels below min(len(values), channelCount) at the
\* write head, leaves every other channel's value at that index as it was, and
\* advances writeHead and sampleCount as any write does.
C4_ShortOrLongWrite ==
  [][(IsWrite /\ Len(LastWrite'.d) # Cardinality(DOMAIN buffersRef)) =>
       LET head == writeHeadRef
           d == LastWrite'.d
       IN /\ tsRef'[head] = LastWrite'.t
          /\ DOMAIN buffersRef' = DOMAIN buffersRef
          /\ \A ch \in DOMAIN buffersRef :
               buffersRef'[ch][head] =
                 IF ch < Len(d) THEN d[ch + 1] ELSE buffersRef[ch][head]
          /\ writeHeadRef' = (head + 1) % BufferSize
          /\ sampleCountRef' = Min(sampleCountRef + 1, BufferSize)]_vars

\* C4 witness: the last write was one value short on a two-channel buffer and
\* the second channel still holds the nonzero value of an overwritten sample
C4_StaleKept ==
  /\ writes > BufferSize
  /\ Cardinality(DOMAIN buffersRef) = 2
  /\ Len(LastWrite.d) = 1
  /\ buffersRef[1][SlotIndex(writeHeadRef, sampleCountRef, sampleCountRef - 1)] # 0

\* C5: at most one frame callback is outstanding, and rafRef holds exactly it.
C5_OneFrame ==
  /\ Cardinality(frames) <= 1
  /\ rafRef = NoFrame <=> frames = {}
  /\ rafRef # NoFrame => frames = {rafRef}

\* C5 witness: two writes have arrived since the last render while the frame
\* of the first is still outstanding
C5_Coalesced ==
  /\ Cardinality(frames) = 1
  /\ ~renderPending
  /\ statsRef.totalSamples >= snap.stats.totalSamples + 2


\* C6: when writes occur before the next frame callback and the chart is not
\* paused, the render that the frame callback requests redraws the chart, and
\* the draw shows the buffer as that render saw it.  (The render that follows
\* the frame callback: the callback has cleared dirtyRef and no render has yet
\* returned the writes.)
C6_BurstDrawn ==
  [][/\ (/\ renderPending /\ ~renderPending'
         /\ ~dirtyRef
         /\ snap.stats.totalSamples < statsRef.totalSamples
         /\ chartMounted(selectedStream)
         /\ ~paused)
          => drawPending'
     /\ (drawPending /\ ~drawPending' /\ ~paused)
          => screen'.total = snap.stats.totalSamples]_vars

\* C7: while the chart is paused no draw is issued; pausing or resuming leaves
\* the buffers, writeHead and sampleCount as they are; and a write made while
\* paused is stored as any write is.
C7_PausedOnlyStopsDraws ==
  [][/\ (paused /\ paused') => screen' = screen
     /\ (paused' # paused /\ selectedStream' = selectedStream)
          => UNCHANGED <<buffersRef, tsRef, writeHeadRef, sampleCountRef>>
     /\ (paused /\ IsWrite) =>
          /\ tsRef'[writeHeadRef] = LastWrite'.t
          /\ \A ch \in DOMAIN buffersRef :
               ch < Len(LastWrite'.d) =>
                 buffersRef'[ch][writeHeadRef] = LastWrite'.d[ch + 1]
          /\ writeHeadRef' = (writeHeadRef + 1) % BufferSize
          /\ sampleCountRef' = Min(sampleCountRef + 1, BufferSize)]_vars

\* C7 witness: paused, with writes stored (and rendered) that the canvas does
\* not show
C7_PausedBehind ==
  /\ paused
  /\ screen.kind = "plot"
  /\ snap.stats.totalSamples = statsRef.totalSamples
  /\ screen.total < statsRef.totalSamples
  /\ sampleCountRef = BufferSize

\* C8: a draw triggered by a change of the time window between two frames
\* reads no slot that was written after the writeHead and sampleCount it uses
\* were returned by the render.
C8_NoTornDraw ==
  [][(windowSeconds' # windowSeconds /\ selectedStream' = selectedStream)
       => ~screen'.torn]_vars

\* C9: once the connection state is rendered as other than open, the
\* statistics are back at zero and the uptime origin is cleared.
C9_StatsResetWhenNotOpen ==
  (wsState # "open" /\ ~renderPending) =>
    /\ statsRef = ZeroStats
    /\ snap.stats = ZeroStats
    /\ connectTimeRef = 0

\* C10: totalSamples goes up by exactly one in an accepted write and is changed
\* by no other step.
C10_TotalCountsWrites ==
  [][/\ (writes' = writes + 1) =>
          statsRef'.totalSamples = statsRef.totalSamples + 1
     /\ (writes' # writes + 1) =>
          statsRef'.totalSamples = statsRef.totalSamples]_vars

\* C10 witness: the total spans a reallocation of the buffers and a marker
\* event that was not counted
C10_AcrossStreams ==
  /\ statsRef.totalSamples = 2
  /\ writes = 1
  /\ Len(markers) > 0
  /\ wsState = "closed"

\* the accepted writes whose clock reading lies in [t - 1s, t], in arrival
\* order
WritesInWindow(times, t) ==
  LET InWindow(x) == t - OneSecond <= x /\ x <= t
  IN SelectSeq(times, InWindow)

\* C11: immediately after an accepted write at clock reading now, the rolling
\* queue holds exactly the clock readings of the accepted writes that lie in
\* [now - 1s, now], the current one included, in arrival order, and
\* actualSampleRate is their number.
C11_RateIsWindowCount ==
  [][IsWrite =>
       /\ rateWindowRef' = WritesInWindow(writeTimes', now)
       /\ statsRef'.actualSampleRate = Len(WritesInWindow(writeTimes', now))]_vars

\* C11 witness: the queue has evicted a write older than a second and holds
\* one made exactly a second before the last and the last
C11_EvictedOlder ==
  /\ Len(writeTimes) = 3
  /\ writeTimes[1] < writeTimes[2]
  /\ rateWindowRef = <<writeTimes[2], writeTimes[3]>>
  /\ writeTimes[3] = writeTimes[2] + OneSecond
  /\ statsRef.actualSampleRate = 2

\* C12: the rate a render returns in its statistics snapshot counts no write
\* that is more than a second old when the render runs: it has decayed with
\* the entries that aged out of the trailing window.
C12_RateDecays ==
  [][(renderPending /\ ~renderPending') =>
       snap'.stats.actualSampleRate <= Len(WritesInWindow(writeTimes, now))]_vars

\* C13: after an accepted write, connectionUptime is the clock time elapsed
\* since the first accepted sample after the most recent (re)connect, and it
\* is not negative.
C13_UptimeSinceFirstSample ==
  [][IsWrite =>
       /\ statsRef'.connectionUptime = now - firstSample'
       /\ statsRef'.connectionUptime >= 0]_vars

\* the marker event behind the i-th entry of the log, if the log is the tail
\* of the events appended
MarkerEvent(i) == appended[Len(appended) - Len(markers) + i]

\* C14: after n marker appends the log has min(n, cap) entries: the most
\* recent min(n, cap) of the appended ones, in the order they were appended.
C14_LastMarkersKept ==
  /\ Len(markers) = Min(Len(appended), MarkerCap)
  /\ \A i \in 1..Len(markers) :
       markers[i] = [timestamp |-> MarkerEvent(i).timestamp,
                     value |-> MarkerEvent(i).value]

\* C14 witness: more events than the cap were appended, the evicted one
\* differs from the oldest one kept and the kept ones differ from each other
C14_EvictedOldest ==
  /\ Len(appended) > MarkerCap
  /\ Len(markers) = MarkerCap
  /\ markers[1] # markers[2]
  /\ appended[1].timestamp # markers[1].timestamp
  /\ appended[1].value # markers[1].value

\* C15: a change of the connection state leaves the marker log as it is, and
\* the log shown for a selected string stream holds no entry received while
\* another stream, or an earlier selection, was the selected one.
C15_LogOfSelection ==
  [][/\ (wsState' # wsState /\ selectedStream' = selectedStream)
          => markers' = markers
     /\ (selectedStream' # selectedStream /\ isStringStream(selectedStream'))
          => markers' = <<>>
     /\ isStringStream(selectedStream') =>
          \A i \in 1..Len(markers') :
            appended'[Len(appended') - Len(markers') + i].stream
              = selectedStream']_vars

\* C16: the buffer is discarded with its stream: the render of a new
\* selection returns an empty buffer snapshot (sampleCount 0, writeHead 0),
\* also when the new stream has as many channels as the previous one.
C16_FreshBufferPerSelection ==
  [][(selectedStream' # selectedStream /\ selectedStream' # NoStream) =>
       /\ snap'.sampleCount = 0
       /\ snap'.writeHead = 0
       /\ sampleCountRef' = 0
       /\ writes' = 0]_vars

\* the buffer after the step is a fresh one of cc channels
FreshBuffer(cc) ==
  /\ DOMAIN buffersRef' = 0..(cc - 1)
  /\ \A ch \in DOMAIN buffersRef' :
       /\ DOMAIN buffersRef'[ch] = 0..(BufferSize - 1)
       /\ \A i \in DOMAIN buffersRef'[ch] : buffersRef'[ch][i] = 0
  /\ DOMAIN tsRef' = 0..(BufferSize - 1)
  /\ writeHeadRef' = 0
  /\ sampleCountRef' = 0
  /\ writes' = 0

\* C17: a step that brings a positive channel count other than the one the
\* buffer was allocated for (that of the last stream selected) gives a fresh
\* buffer: one sequence per channel, each of the capacity, writeHead 0 and
\* sampleCount 0; every other step leaves the sequences in place and the
\* buffer as it is, or is a write to it.
C17_ReallocOnlyOnChannelCount ==
  [][LET cc == channelCount(selectedStream')
     IN IF cc > 0 /\ cc # Cardinality(DOMAIN buffersRef)
        THEN FreshBuffer(cc)
        ELSE /\ DOMAIN buffersRef' = DOMAIN buffersRef
             /\ DOMAIN tsRef' = DOMAIN tsRef
             /\ \/ UNCHANGED <<bufVars, writes>>
                \/ IsWrite /\ writes' = writes + 1]_vars

\* C17 witness: a buffer of one channel that held samples was replaced by a
\* fresh one of two channels
C17_Reallocated ==
  /\ statsRef.totalSamples > 0
  /\ Cardinality(DOMAIN buffersRef) = 2
  /\ channelCount(selectedStream) = 2
  /\ writes = 0
  /\ sampleCountRef = 0

\* C18: an event on a string stream appends one entry to the marker log and
\* leaves the buffers, writeHead, sampleCount, the statistics and the dirty
\* and frame flags unchanged; an event on a numeric stream is one buffer
\* write and leaves the marker log unchanged.
C18_RoutedByFormat ==
  [][/\ (appended' # appended) =>
          /\ isStringStream(selectedStream)
          /\ Len(appended') = Len(appended) + 1
          /\ Len(markers') = Min(Len(markers) + 1, MarkerCap)
          /\ markers'[Len(markers')] =
               [timestamp |-> appended'[Len(appended')].timestamp,
                value |-> appended'[Len(appended')].value]
          /\ UNCHANGED <<bufVars, statVars, dirtyRef, rafRef, frames, writes>>
     /\ IsWrite =>
          /\ ~isStringStream(selectedStream)
          /\ selectedStream # NoStream
          /\ writes' = writes + 1
          /\ writeHeadRef' = (writeHeadRef + 1) % BufferSize
          /\ UNCHANGED <<markers, appended>>]_vars

\* C18 witness: a numeric stream's event was written to the buffer and then a
\* string stream's event of two values was appended to the log
C18_BothRoutes ==
  /\ isStringStream(selectedStream)
  /\ statsRef.totalSamples = 1
  /\ dirtyRef
  /\ Len(markers) = 1
  /\ markers[1].value = <<"a", ", ", "b">>
  /\ appended[1].stream = selectedStream

\* C19: a malformed event (null, no timestamp, no data) is ignored: the
\* buffers, writeHead, sampleCount, the statistics, the marker log, the dirty
\* and frame flags and the requested render are as they were.
C19_MalformedIgnored ==
  [][(malformed' # malformed) =>
       UNCHANGED <<bufVars, statVars, markers, dirtyRef, rafRef, frames,
                   renderPending, drawPending, snap, screen, wsVars, obsVars>>]_vars

\* C19 witness: a malformed event was delivered to a socket whose stream has
\* a sample in the buffer and a frame outstanding
C19_IgnoredWhileStreaming ==
  /\ malformed = MaxMalformed
  /\ wsRef = "open"
  /\ sampleCountRef = 1
  /\ writes = 1
  /\ rafRef # NoFrame

\* the values of channel ch that a draw of the last snapshot plots
WindowedValues(ch) ==
  { buffersRef[ch][idx] : idx \in WindowSlots(snap, windowSeconds) }

VisibleValues(vis, win) ==
  { buffersRef[ch][idx] : ch \in vis, idx \in WindowSlots(snap, win) }

\* C21: in overlay mode the one Y range is computed from the smallest and the
\* largest windowed sample of the visible channels only: widened by 1 on each
\* side when they are equal, then padded by 5% of the range on each side (in
\* hundredths); its max is above its min.
C21_OverlayRange ==
  \A vis \in SUBSET (DOMAIN buffersRef) :
    LET vals == VisibleValues(vis, windowSeconds)
        r == overlayRange(snap, windowSeconds, vis)
    IN (snap.sampleCount > 0 /\ vals # {}) =>
         /\ \A lo \in vals : \A hi \in vals :
              (\A u \in vals : lo <= u /\ u <= hi) =>
                r = IF lo = hi
                    THEN <<100 * (lo - 1) - 10, 100 * (hi + 1) + 10>>
                    ELSE <<100 * lo - 5 * (hi - lo), 100 * hi + 5 * (hi - lo)>>
         /\ r[2] > r[1]

\* C21 witness: a snapshot of two samples of two channels for which hiding a
\* channel changes the range, and so does the window
C21_HiddenChannelMatters ==
  /\ snap.sampleCount = 2
  /\ Cardinality(DOMAIN buffersRef) = 2
  /\ overlayRange(snap, 5, {0}) # overlayRange(snap, 5, {0, 1})
  /\ overlayRange(snap, 1, {0, 1}) # overlayRange(snap, 5, {0, 1})
  /\ Cardinality(VisibleValues({1}, 1)) = 1

\* C22: in stacked mode the lanes go, top to bottom, to the visible channels
\* in ascending numeric order of channel index, for every visibility set and
\* every channel count, streams of more than 10 channels included.
C22_LanesAscending ==
  (call.fn = "activeChannels" /\ call.done) =>
    \A i, j \in DOMAIN call.result :
      i < j => call.result[i] < call.result[j]

\* C23: a draw with sampleCount = 0, or with no channel buffers, ends in the
\* placeholder, and a draw with no visible channel draws nothing; neither
\* computes a latest index, a range or a coordinate.  So in every draw, in
\* either mode and for every visibility set, each index used is an index of
\* the array it is used on and no divisor is 0.
C23_EmptyDrawsComputeNothing ==
  chartMounted(selectedStream) =>
    \A nch \in {0, Cardinality(DOMAIN buffersRef)} :
      \A vis \in SUBSET (0..Cardinality(DOMAIN buffersRef)) :
        \A isStacked \in BOOLEAN :
          LET g == drawGeometry(snap, nch, vis, windowSeconds, isStacked)
              empty == g.tsReads = {} /\ g.chReads = {} /\ g.divisors = {}
          IN /\ (snap.sampleCount = 0 \/ nch = 0) =>
                  g.outcome = "waiting" /\ empty
             /\ (snap.sampleCount > 0 /\ nch > 0
                   /\ vis \cap 0..(nch - 1) = {}) =>
                  g.outcome = "blank" /\ empty
             /\ g.tsReads \subseteq DOMAIN tsRef
             /\ g.chReads \subseteq DOMAIN buffersRef
             /\ 0 \notin g.divisors

\* C23 witness: the placeholder was drawn for a connected stream that has
\* no sample yet
C23_PlaceholderDrawn ==
  /\ chartMounted(selectedStream)
  /\ snap.sampleCount = 0
  /\ screen.kind = "waiting"
  /\ wsState = "open"

\* C24: the samples a draw plots are, oldest first, exactly those of the
\* sampleCount most recent samples whose timestamp is at least latestTime -
\* windowSeconds, latestTime being the timestamp at (writeHead - 1) mod
\* capacity, that is, of the most recent write; the most recent sample is
\* always plotted, as the last one.  (Compared with the writes themselves
\* when the props of the draw are the current head and count.)
C24_PlottedAreWindowed ==
  LET p == plotted(snap, windowSeconds)
      recent(h) == h.t >= LastWrite.t - windowSeconds
      expected == SelectSeq(hist, recent)
  IN /\ snap.sampleCount > 0 =>
          /\ p # <<>>
          /\ p[Len(p)] = (snap.writeHead - 1 + BufferSize) % BufferSize
     /\ (snap.sampleCount > 0 /\ snap.sampleCount = sampleCountRef
           /\ snap.writeHead = writeHeadRef) =>
          /\ Len(hist) = snap.sampleCount
          /\ [k \in DOMAIN p |-> tsRef[p[k]]] =
               [k \in DOMAIN expected |-> expected[k].t]
          /\ tsRef[p[Len(p)]] = LastWrite.t

\* C24 witness: a full buffer whose older sample lies before the window of
\* 1 s was drawn: only the newer one is plotted
C24_OlderSampleLeftOut ==
  /\ snap.sampleCount = BufferSize
  /\ snap.sampleCount = sampleCountRef /\ snap.writeHead = writeHeadRef
  /\ windowSeconds = 1
  /\ Len(plotted(snap, 1)) = 1
  /\ Len(plotted(snap, 5)) = BufferSize
  /\ screen.kind = "plot" /\ screen.total = statsRef.totalSamples

\* C25: a draw only reads the stream state: the step of the redraw effect,
\* and the steps that redraw after a change of the chart's own state (pause,
\* window), leave the timestamp sequence, every channel sequence, writeHead,
\* sampleCount, the statistics and the marker log as they are.
C25_DrawReadsOnly ==
  [][((drawPending /\ ~drawPending') \/ paused' # paused
        \/ windowSeconds' # windowSeconds \/ screen' # screen)
       /\ selectedStream' = selectedStream /\ downsample' = downsample
     => UNCHANGED <<tsRef, buffersRef, writeHeadRef, sampleCountRef,
                    statsRef, rateWindowRef, markers>>]_vars

\* C25 witness: a full buffer has been drawn, and is still full
C25_FullBufferDrawn ==
  /\ screen.kind = "plot"
  /\ screen.total = statsRef.totalSamples
  /\ sampleCountRef = BufferSize
  /\ ~drawPending /\ ~renderPending

\* the prefix lengths whose prefix, followed by the ellipsis, fits the budget:
\* what a search over all the prefix lengths finds
FittingPrefixes(text, maxWidth) ==
  { n \in 0..Len(text) : Width(Slice(text, n) \o Ellipsis) <= maxWidth }

\* C26: fitTextToWidth returns a label that fits its budget unchanged;
\* otherwise it returns the longest prefix followed by the ellipsis that
\* fits, the one a search over all prefix lengths finds (and the empty string
\* when not even the ellipsis fits); the binary search ends for every input.
C26_LongestFittingPrefix ==
  (call.fn = "fitTextToWidth" /\ call.done) =>
    LET text == call.args[1]
        maxWidth == call.args[2]
        fitting == FittingPrefixes(text, maxWidth)
    IN IF Width(text) <= maxWidth THEN call.result = text
       ELSE IF fitting = {} THEN call.result = <<>>
       ELSE /\ \E n \in fitting :
                 /\ \A k \in fitting : k <= n
                 /\ call.result = Slice(text, n) \o Ellipsis
            /\ Width(call.result) <= maxWidth

\* C26 witness: a label too wide for its budget was cut to a nonempty proper
\* prefix and the ellipsis, filling the budget exactly
C26_Truncated ==
  /\ call.fn = "fitTextToWidth" /\ call.done
  /\ Width(call.args[1]) > call.args[2]
  /\ Len(call.result) > Len(Ellipsis)
  /\ Len(call.result) < Len(call.args[1]) + Len(Ellipsis)
  /\ Width(call.result) = call.args[2]

\* C27: the marker timeline shows the empty state for an empty log, and
\* otherwise the last min(cap, length) entries of the log, the newest first:
\* row i is the i-th entry from the end.
C27_NewestFirst ==
  (call.fn = "EventMarkerTimeline" /\ call.done) =>
    LET log == call.args[1]
        shown == call.result
    IN /\ Len(log) = 0 => shown.kind = "empty" /\ shown.rows = <<>>
       /\ Len(log) > 0 =>
            /\ shown.kind = "list"
            /\ Len(shown.rows) = Min(TimelineCap, Len(log))
            /\ \A i \in 1..Len(shown.rows) :
                 shown.rows[i] = log[Len(log) - i + 1]

\* C27 witness: a log longer than the timeline was shown, its last entry on
\* top of a different one, its first entry not at all
C27_TailShown ==
  /\ call.fn = "EventMarkerTimeline" /\ call.done
  /\ Len(call.args[1]) > TimelineCap
  /\ call.result.rows[1] # call.result.rows[2]
  /\ \A i \in DOMAIN call.result.rows : call.result.rows[i] # call.args[1][1]

\* a close event of the current socket: the reference is dropped and
\* neither the selection nor the downsampling changed (no click)
ServerClose ==
  /\ wsRef \in {"open", "failed"}
  /\ wsRef' = "null"
  /\ UNCHANGED <<selectedStream, downsample>>

\* C28: when the current socket closes without the hook having closed it, the
\* state becomes closed, and with a non-null URL and reconnectDelay > 0 (and
\* only then) a reconnect is scheduled; a scheduled reconnect is followed by
\* a connection attempt (state connecting) unless the URL has been set to
\* null; with reconnectDelay = 0 no reconnect is ever pending, and a new
\* connection is only ever opened by a click.
C28_Reconnects ==
  /\ [][ServerClose =>
          /\ wsState' = "closed"
          /\ (reconnectDelay > 0 /\ urlRef # NoUrl)
               => reconnectTimer' = reconnectTimer + 1
          /\ ~(reconnectDelay > 0 /\ urlRef # NoUrl)
               => reconnectTimer' = reconnectTimer]_vars
  /\ [](reconnectDelay = 0 => reconnectTimer = 0)
  /\ [][(reconnectDelay = 0 /\ wsRef # "connecting" /\ wsRef' = "connecting")
          => <<selectedStream, downsample>>' # <<selectedStream, downsample>>
     ]_vars
  /\ (reconnectTimer > 0) ~> (wsState = "connecting" \/ urlRef = NoUrl)

\* C28 as stated: after such a close with a non-null URL and reconnectDelay >
\* 0 the state is closed and a connection attempt always follows; with
\* reconnectDelay = 0 no reconnect is ever pending.
C28_ReconnectsAlways ==
  /\ [][ServerClose => wsState' = "closed"]_vars
  /\ [](reconnectDelay = 0 => reconnectTimer = 0)
  /\ (reconnectTimer > 0) ~> (wsState = "connecting")

\* C28 witness: the server closed the socket of a selected stream and the
\* reconnect is pending
C28_ReconnectPending ==
  /\ reconnectDelay > 0
  /\ urlRef # NoUrl
  /\ wsState = "closed" /\ wsRef = "null"
  /\ reconnectTimer > 0

\* C29: after an explicit close() or after the URL has become null, and
\* until the URL changes to a non-null value, no reconnect timer is pending,
\* no socket is referenced, the reported state is closed, and no connection
\* is opened.
C29_ClosedWhileNoUrl ==
  /\ [](urlRef = NoUrl =>
          wsState = "closed" /\ wsRef = "null" /\ reconnectTimer = 0)
  /\ [][(urlRef = NoUrl /\ urlRef' = NoUrl) => wsRef' = "null"]_vars

\* C30: once a socket has been replaced or closed by the hook, none of its
\* later events changes the reported state, delivers a sample or schedules a
\* reconnect.
C30_StaleEventsIgnored ==
  [][orphans' < orphans =>
       UNCHANGED <<wsState, reconnectTimer, wsRef, bufVars, statVars,
                   markers>>]_vars

\* C31: at most one reconnect timer is pending; the hook references at most
\* one socket, and no reconnect timer is pending while that socket is
\* connecting or open (nor while its close event is still to come).
C31_OneTimerOneSocket ==
  /\ reconnectTimer \in {0, 1}
  /\ wsRef \in {"null", "connecting", "open", "failed"}
  /\ reconnectTimer > 0 => wsRef = "null"

\* C31 witness: a reconnect is pending for a selected stream after the
\* render of the closed state, with a socket the hook closed earlier still
\* to fire its error event
C31_TimerPendingAlone ==
  /\ reconnectTimer = 1
  /\ wsRef = "null"
  /\ selectedStream # NoStream
  /\ ~renderPending
  /\ orphans > 0

\* C32 as stated: whenever dirty is set a frame callback is pending, whatever
\* the interleaving of writes, frames and disconnects, and every accepted
\* write is followed by a frame callback that clears dirty and by a render
\* that returns the state after that write.
C32_DirtyHasFrame ==
  /\ [](dirtyRef => rafRef # NoFrame)
  /\ dirtyRef ~> ~dirtyRef
  /\ \A n \in 1..MaxWrites :
       (statsRef.totalSamples = n) ~> (snap.stats.totalSamples >= n)

\* C32: a write leaves dirty set and a frame callback pending; dirty without a
\* pending frame arises only in a disconnect (which cancels the frame); a
\* pending frame is followed by the callback clearing dirty unless a
\* disconnect cancels it; and every accepted write is followed by a render
\* that returns the state after it.
C32_NoWriteLost ==
  /\ [][IsWrite => dirtyRef' /\ rafRef' # NoFrame]_vars
  /\ [][(dirtyRef' /\ rafRef' = NoFrame) =>
          \/ dirtyRef /\ rafRef = NoFrame
          \/ selectedStream' # selectedStream]_vars
  /\ (dirtyRef /\ rafRef # NoFrame) ~> (~dirtyRef \/ rafRef = NoFrame)
  /\ \A n \in 1..MaxWrites :
       (statsRef.totalSamples = n) ~> (snap.stats.totalSamples >= n)

\* C32 witness: the burst of writes was rendered after its frame callback,
\* with nothing left pending
C32_BurstRendered ==
  /\ statsRef.totalSamples = MaxWrites
  /\ snap.stats.totalSamples = MaxWrites
  /\ ~dirtyRef /\ rafRef = NoFrame /\ ~renderPending
  /\ selectedStream # NoStream

\* C33: after the chart is resumed a draw showing the current buffer state
\* occurs even when no further sample arrives: when the resume leaves no
\* frame, render or effect pending (so that nothing but a further sample or
\* click can cause a draw), the screen shows every sample written.
C33_ResumeRedraws ==
  [][(/\ paused /\ ~paused'
      /\ chartMounted(selectedStream')
      /\ ~renderPending' /\ ~drawPending' /\ frames' = {})
       => screen'.total = statsRef'.totalSamples]_vars

\* C34: every plotted point stays inside its drawing area: in stacked mode y
\* is within the lane of its channel, [laneTop, laneTop + laneH], in overlay
\* mode within [margin.top, margin.top + plotH], and in both modes x is not
\* left of margin.left.
C34_PointsInsideArea ==
  (call.fn = "tracePoint" /\ call.done) =>
    /\ 0 <= call.result.y /\ call.result.y <= call.result.area
    /\ call.result.x >= 0

\* C35: whenever the recording state is non-null it belongs to the selected
\* stream: a stream change clears recording, error and busy, and a request
\* that was in flight at the change never installs the old stream's session.
C35_RecordingOfSelection ==
  recording # NoRecording => recording.streamUid = selectedStream

\* C36 as stated: a start or stop request sets busy and clears error before
\* the request; when it completes busy is false; a failure sets error to a
\* message and leaves recording; a success replaces recording by the server's
\* session and error is null after it.
C36_ErrorNullAfterSuccess ==
  [][/\ StartRecording \/ StopRecording => busy' /\ error' = NoError
     /\ StartFails \/ StopFails =>
          ~busy' /\ error' # NoError /\ recording' = recording
     /\ StartSucceeds \/ StopSucceeds =>
          ~busy' /\ recording' # NoRecording /\ error' = NoError]_vars

\* C36, amended: a start or stop request sets busy and clears error before
\* the request; when it completes busy is false; a failure sets error to a
\* message and leaves recording; a success replaces recording by the server's
\* session and leaves error as it is, which is null unless another request
\* of the hook failed while this one was in flight.
C36_RequestOutcome ==
  [][/\ StartRecording \/ StopRecording => busy' /\ error' = NoError
     /\ StartFails \/ StopFails =>
          ~busy' /\ error' # NoError /\ recording' = recording
     /\ StartSucceeds \/ StopSucceeds =>
          ~busy' /\ recording' # NoRecording /\ error' = error]_vars

\* a stop request has failed: the session is still the active one, the error
\* is the message and busy is false
C36_StopFailed ==
  /\ isActive
  /\ recording.streamUid = selectedStream
  /\ error = Failed("stop")
  /\ ~busy
  /\ requests = EmptyBag

====
